---- MODULE Spec2Model ----
(***************************************************************************)
(* Model of the admin dashboard front end (AramMid/CMS).                   *)
(*                                                                         *)
(*   - generateTradingSeries and its helpers (data-table-client.tsx,      *)
(*     lines 118-221): the synthetic trading series generator.            *)
(*   - DataTableClient's polling effect (data-table-client.tsx, 14-70).   *)
(*   - UserDetailDialog / UserRowActions (data-table, part_001).          *)
(*   - ChartAreaInteractive's range selection (data-table-client.tsx,     *)
(*     lines 229-299) and the SectionCards ticker (section-cards.tsx).    *)
(*   - DataTable's users state and its drag to reorder (part_001,         *)
(*     lines 570-644).                                                     *)
(*                                                                         *)
(* Numbers.  The generator works on IEEE doubles; the model works in      *)
(* fixed point on integers that fit 32 bits:                               *)
(*   uniform draws       thousandths            (0.999 is 999)            *)
(*   returns, volatility basis points, 1e-4     (0.014 is 140)            *)
(*   currency            the running balance is carried in units of       *)
(*                       10,000 VND; an emitted totalBalance is in units  *)
(*                       of 100,000 VND, so Math.round rounds the         *)
(*                       balance to one tenth of its carried precision    *)
(*   activeUsers         integers; the Math.round argument in thousandths *)
(* Every product is rounded to nearest (RDiv), as a double would be.      *)
(***************************************************************************)
EXTENDS Integers, Sequences, FiniteSets, TLC

(***************************************************************************)
(* Bounds of the model.                                                    *)
(***************************************************************************)
\* Largest `days` a call is made with (the call sites pass 3, 5 and 7).
MaxDays == 3
\* Longest period of the random source's output sequence.
MaxPeriod == 3


VARIABLES
    \* ---- the process's random source (Math.random) and clock (new Date())
    rngTape,        \* the source's output sequence, repeated with its period
    rngPos,         \* index in rngTape of the next value Math.random returns
    today,          \* local calendar date of the clock: <<yyyy, mm, dd>>, mm 1-based
    \* ---- the calls of generateTradingSeries, by call id
    pc,             \* pc[c]: "idle", "loop", "shock", "gaussU", "gaussV", "apply", "done"
    loc,            \* loc[s]: the locals held in scope s, a record:
                    \*   days, baseUsers, drift, vol, balance, activeUsers, anchor,
                    \*   startDate, date (Dates, as local day numbers), i,
                    \*   shock (basis points), u, v (gaussian's locals),
                    \*   userShock (thousandths),
                    \*   usersRaw (the value of Math.round(...) at line 193),
                    \*   data (the output array)
    asked,          \* asked[c]: the argument call c was made with
    drawn,          \* drawn[c]: the values Math.random has returned to call c
    \* ---- DataTableClient: the polling effect
    now,            \* the page's clock, in ms
    apiBase,        \* the apiBase prop
    comp,           \* "rendered" (effects not yet run), "mounted", "unmounted"
    effects,        \* the runs of the effect, in order; a record per run:
                    \*   mounted, aborted (controller.signal.aborted),
                    \*   t (the time the interval fires next, or NoTimer),
                    \*   base (apiBase in the closure), start, end (times of the
                    \*   run's set-up and of its cleanup)
    polls,          \* the calls of load(), in order; a record per call:
                    \*   eff (the effect run), at, url, phase
    requests,       \* the requests state (line 29)
    parsed,         \* what res.json() last resolved or rejected on, and for
                    \*   which call of load(): poll (0: none yet), body
    toasts,         \* the toasts shown, in order
    \* ---- UserDetailDialog of one row
    open, mode,     \* UserRowActions' state (lines 366-367)
    loading, saving, detail,   \* the dialog's state (lines 213-215)
    loads,          \* the calls of fetchUserDetail, in order: id, phase, and
                    \*   while pending mounted (the flag in the closure)
    patches,        \* the calls of patchUser, in order: method, url, phase
                    \*   ("pending", "resolved", "rejected"), and while
                    \*   pending body
    refreshes,      \* the number of calls of router.refresh() (line 250)
    \* ---- ChartAreaInteractive (data-table-client.tsx, lines 229-246)
    chart,          \* "unrendered", "mounted"
    timeRange,      \* the timeRange state (line 231)
    isMobile,       \* what useIsMobile() returns (line 230)
    chartData,      \* the memoized series (line 240)
    chartCalls,     \* the arguments of the chart's calls of the generator
    \* ---- SectionCards (section-cards.tsx, lines 213-238)
    cards,          \* "unrendered", "mounted", "unmounted"
    stats,          \* the stats state (line 214)
    cardTicks,      \* the number of times the 1200 ms interval has fired
    \* ---- DataTable (part_001, lines 570-644)
    usersProp,      \* initial.users, the users prop: rows (the array's
                    \*   rows) and ref (which array object it is)
    users,          \* the users state (line 571), a list of rows
    dataIds,        \* the memoized ids of users (lines 600-603)
    dragging        \* the drag in progress: active and over, the ids of the
                    \*   dragged row and of the row under it (NoRow: none)

genVars == <<pc, loc, asked, drawn>>
envVars == <<rngTape, today>>
pollVars == <<now, apiBase, comp, effects, polls, requests, parsed>>
dialogVars == <<open, mode, loading, saving, detail, loads, patches, refreshes>>
chartVars == <<chart, timeRange, isMobile, chartData, chartCalls>>
cardVars == <<cards, stats, cardTicks>>
tableVars == <<usersProp, users, dataIds, dragging>>
pageVars == <<pollVars, dialogVars, toasts, chartVars, cardVars, tableVars>>
notPoll == <<rngTape, rngPos, today, genVars, dialogVars, chartVars, cardVars, tableVars>>
notDialog == <<rngTape, rngPos, today, genVars, pollVars, chartVars, cardVars, tableVars>>
notChart == <<rngTape, today, genVars, pollVars, dialogVars, toasts, cardVars, tableVars>>
notCards == <<rngTape, today, genVars, pollVars, dialogVars, toasts, chartVars, tableVars>>
notTable == <<rngTape, rngPos, today, genVars, pollVars, dialogVars, toasts, chartVars, cardVars>>
vars == <<rngTape, rngPos, today, genVars, pageVars>>

(***************************************************************************)
(* Arithmetic helpers.                                                     *)
(***************************************************************************)
Max(a, b) == IF a >= b THEN a ELSE b
Min(a, b) == IF a <= b THEN a ELSE b

\* a / b rounded to the nearest integer, halves up (b > 0).
RDiv(a, b) == (2 * a + b) \div (2 * b)

\* Math.round of a value given in thousandths: nearest integer, halves up.
MathRound(milli) == (milli + 500) \div 1000

\* Math.sign
Sign(x) == IF x > 0 THEN 1 ELSE IF x < 0 THEN 0 - 1 ELSE 0

\* clamp(n, min, max), line 118
clamp(n, lo, hi) == Max(lo, Min(hi, n))

(***************************************************************************)
(* The random source.  Math.random returns a double in [0, 1).  The model  *)
(* keeps four of its values: exactly 0, the smallest positive double       *)
(* ("tiny", 2^-53: not 0, but 0 at the model's precision), 0.5 and 0.999.  *)
(* The source is a generator with hidden state: its output is a sequence   *)
(* fixed by the seed, here any sequence of period 1..MaxPeriod.            *)
(***************************************************************************)
Grid == {"zero", "tiny", "half", "top"}

\* The value of a draw, in thousandths.
Milli(g) == CASE g = "zero" -> 0 [] g = "tiny" -> 0 [] g = "half" -> 500 [] g = "top" -> 999

\* `x === 0` for a draw x (lines 217, 218)
IsZero(g) == g = "zero"

Tapes == UNION {[1..p -> Grid] : p \in 1..MaxPeriod}

\* The k-th value the source returns from now on (k = 1 is the next one).
Draw(k) == rngTape[((rngPos - 1 + (k - 1)) % Len(rngTape)) + 1]
\* The source's position after n more calls of Math.random.
Consumed(n) == ((rngPos - 1 + n) % Len(rngTape)) + 1

(***************************************************************************)
(* Dates.  A Date is modelled by its local day number (days since          *)
(* 1970-01-01); the time of day, which setDate keeps, is left out.         *)
(* getFullYear / getMonth (0-based) / getDate and setDate follow           *)
(* ECMAScript's YearFromTime, MonthFromTime, DateFromTime and MakeDay.     *)
(***************************************************************************)
IsLeap(y) == (y % 4 = 0 /\ y % 100 # 0) \/ y % 400 = 0

\* Days in month m0 (0-based) of year y.
DaysInMonth(y, m0) ==
    IF m0 = 1 THEN (IF IsLeap(y) THEN 29 ELSE 28)
    ELSE IF m0 \in {3, 5, 8, 10} THEN 30 ELSE 31

DayFromYear(y) ==
    365 * (y - 1970) + ((y - 1969) \div 4) - ((y - 1901) \div 100) + ((y - 1601) \div 400)

RECURSIVE DaysBeforeMonth(_, _)
DaysBeforeMonth(y, m0) ==
    IF m0 = 0 THEN 0 ELSE DaysBeforeMonth(y, m0 - 1) + DaysInMonth(y, m0 - 1)

\* MakeDay(year, month, date): date may lie outside the month (setDate).
MakeDay(y, m0, dt) == DayFromYear(y) + DaysBeforeMonth(y, m0) + dt - 1

getFullYear(t) ==
    CHOOSE y \in (1970 + t \div 366)..(1971 + t \div 365) :
        DayFromYear(y) <= t /\ t < DayFromYear(y + 1)

getMonth(t) ==
    LET y == getFullYear(t)
        n == t - DayFromYear(y)
    IN CHOOSE m0 \in 0..11 :
        DaysBeforeMonth(y, m0) <= n /\ n < DaysBeforeMonth(y, m0) + DaysInMonth(y, m0)

getDate(t) ==
    LET y == getFullYear(t)
    IN t - DayFromYear(y) - DaysBeforeMonth(y, getMonth(t)) + 1

\* new Date() when the clock shows the calendar date <<yyyy, mm, dd>>
NewDate(ymd) == MakeDay(ymd[1], ymd[2] - 1, ymd[3])

\* shiftDays(date, days), lines 122-126
shiftDays(t, n) == MakeDay(getFullYear(t), getMonth(t), getDate(t) + n)

\* Mutant: getMonth() used without the + 1.
toISODateZeroBasedMonth(t) == <<getFullYear(t), getMonth(t), getDate(t)>>

\* toISODate(d), lines 128-133: "YYYY-MM-DD" as <<yyyy, mm, dd>>, mm 1-based
toISODate(t) == <<getFullYear(t), getMonth(t) + 1, getDate(t)>>

\* The clock's calendar dates the model starts from: around the end of
\* February in a leap and in a common year, and around New Year.
ClockDates == {<<2024, 3, 1>>, <<2023, 3, 2>>, <<2024, 1, 2>>}

(***************************************************************************)
(* generateTradingSeries: the expressions of lines 140-206.                *)
(***************************************************************************)
\* Mutant: the lower branch cuts the balance to 80%.
StartBalanceDeepCut(g1, g2) ==
    LET b == 30000 + 90 * Milli(g1)
    IN IF Milli(g2) > 500 THEN b ELSE RDiv(b * 8, 10)

\* startBalance, lines 142-143: (300M + U1 * 900M) * (U2 > 0.5 ? 1 : 0.9)
StartBalance(g1, g2) ==
    LET b == 30000 + 90 * Milli(g1)
    IN IF Milli(g2) > 500 THEN b ELSE RDiv(b * 9, 10)

\* baseUsers, line 146: Math.floor(40 + U * 160)
BaseUsers(g) == 40 + (160 * Milli(g)) \div 1000

\* Mutant: the drift ten times as large, (U - 0.45) * 0.012.
DriftTenfold(g) == RDiv((Milli(g) - 450) * 120, 1000)

\* drift, line 149: (U - 0.45) * 0.0012, basis points
Drift(g) == RDiv((Milli(g) - 450) * 12, 1000)

\* FletcherVol(min, max), lines 209-211: min + U * (max - min)
FletcherVol(lo, hi, g) == lo + RDiv(Milli(g) * (hi - lo), 1000)

\* anchor, line 157: startBalance * (0.98 + U * 0.05)
Anchor(start, g) == start + RDiv(start * (Milli(g) - 400), 20000)

\* Mutant: days is floored at 1 (i < Math.max(days, 1)).
LoopCondAtLeastOnce(k, n) == k < Max(n, 1)

\* Mutant: the loop runs once more (i <= days).
LoopCondInclusive(k, n) == k <= n

\* The loop condition, line 165
LoopCond(k, n) == k < n

\* Mutant: the rescaled volatility is stored without the clamp.
ClusterVolUnclamped(w, g) == RDiv(w * (8500 + 7 * Milli(g)), 10000)

\* Volatility clustering, line 170: clamp(vol * (0.85 + U * 0.7), 0.003, 0.03)
ClusterVol(w, g) == clamp(RDiv(w * (8500 + 7 * Milli(g)), 10000), 30, 300)

\* Mutant: the magnitude 0.008 + U * 0.2.
ShockOfWide(gSign, gMag) ==
    (IF Milli(gSign) > 500 THEN 1 ELSE 0 - 1) * (80 + RDiv(2000 * Milli(gMag), 1000))

\* The shock, lines 174-177, given the sign draw and the magnitude draw
ShockOf(gSign, gMag) ==
    (IF Milli(gSign) > 500 THEN 1 ELSE 0 - 1) * (80 + RDiv(200 * Milli(gMag), 1000))

\* sqrt(-2 ln u), thousandths.  ln 0 is -Infinity: the entry for "zero"
\* stands for +Infinity.
SqrtNeg2Ln(g) ==
    CASE g = "zero" -> 1000000 [] g = "tiny" -> 8572 [] g = "half" -> 1177 [] g = "top" -> 45

\* cos(2 pi v), thousandths
Cos2Pi(g) == CASE g = "zero" -> 1000 [] g = "tiny" -> 1000 [] g = "half" -> 0 - 1000 [] g = "top" -> 1000

\* gaussian's result, lines 219-220: mean + z * std
GaussianValue(mean, std, gu, gv) ==
    LET z == (SqrtNeg2Ln(gu) * Cos2Pi(gv)) \div 1000
    IN mean + RDiv(z * std, 1000)

\* Mutant: the return without the pull back toward the anchor.
DailyReturnNoReversion(dr, noise, sh, b, a) == dr + noise + sh

\* Lines 181-185: dailyReturn = drift + noise + shock - 0.08 * deviation,
\* deviation = (balance - anchor) / anchor
DailyReturn(dr, noise, sh, b, a) == dr + noise + sh + RDiv((a - b) * 800, a)

\* Line 188: balance * (1 + dailyReturn), before Math.max
Compound(b, ret) == b + RDiv(b * ret, 10000)

\* Mutant: balance * dailyReturn, without the floor at 0.
ApplyReturnGainOnly(b, ret) == RDiv(b * ret, 10000)

\* Line 188: Math.max(0, balance * (1 + dailyReturn))
ApplyReturn(b, ret) == Max(0, Compound(b, ret))

\* Mutant: the user shock's magnitude 1 + U * 4.
UserShockStrong(sh, g) == IF sh # 0 THEN Sign(sh) * (1000 + 4 * Milli(g)) ELSE 0

\* Line 191: userShock, thousandths
UserShock(sh, g) == IF sh # 0 THEN Sign(sh) * (1000 + 2 * Milli(g)) ELSE 0

\* Line 193: Math.round(activeUsers + (U - 0.5) * 6 + userShock)
UsersRounded(au, g, us) == MathRound(au * 1000 + (Milli(g) - 500) * 6 + us)

\* Lines 194, 195: the clamp's bounds
UsersFloor(base) == Max(5, MathRound(base * 600))
UsersCeiling(base) == MathRound(base * 1400)

\* Mutant: the rounded value is stored without the clamp.
ClampUsersMissing(n, base) == n

\* Lines 192-196
ClampUsers(n, base) == clamp(n, UsersFloor(base), UsersCeiling(base))

\* Line 200: Math.round(balance)
TotalBalance(b) == RDiv(b, 10)

\* Lines 198-202: the pushed point
Point(t, b, au) == [date |-> toISODate(t), totalBalance |-> TotalBalance(b), activeUsers |-> au]


(***************************************************************************)
(* generateTradingSeries, step by step.  A step takes the call's locals f  *)
(* and the values d[1], d[2], ... Math.random returns next, and gives the  *)
(* next position, the new locals and the number of values it used.  The    *)
(* Box-Muller redraw loops are steps of their own.                         *)
(***************************************************************************)
\* The locals before the call assigns them.
NoLocals ==
    [days |-> 0, baseUsers |-> 0, drift |-> 0, vol |-> 0, balance |-> 0,
     activeUsers |-> 0, anchor |-> 0, startDate |-> 0, i |-> 0, date |-> 0,
     shock |-> 0, u |-> "zero", v |-> "zero", userShock |-> 0, usersRaw |-> 0,
     data |-> <<>>]

\* Line 160: the offset of startDate from the reference date
StartOffset(n) == 0 - (n - 1)

\* Lines 140-163: the call's set-up, six draws in source order.
SetUpStep(n, clock, d) ==
    LET start == StartBalance(d[1], d[2])
    IN [pc |-> "loop", used |-> 6,
        loc |-> [NoLocals EXCEPT
                   !.days = n,
                   !.baseUsers = BaseUsers(d[3]),
                   !.drift = Drift(d[4]),
                   !.vol = FletcherVol(40, 140, d[5]),
                   !.balance = start,
                   !.activeUsers = BaseUsers(d[3]),
                   !.anchor = Anchor(start, d[6]),
                   !.startDate = shiftDays(NewDate(clock), StartOffset(n)),
                   !.data = <<>>,
                   !.i = 0]]

\* Lines 166-171: the iteration's date, volatility clustering.
VolClusterStep(f, d) ==
    LET fires == Milli(d[1]) < 180
    IN [pc |-> "shock", used |-> IF fires THEN 2 ELSE 1,
        loc |-> [f EXCEPT
                   !.date = shiftDays(f.startDate, f.i),
                   !.vol = IF fires THEN ClusterVol(f.vol, d[2]) ELSE f.vol]]

\* Lines 174-177, and the entry of gaussian (lines 215-216: u = 0, v = 0).
ShockStep(f, d) ==
    LET fires == Milli(d[1]) < 120
    IN [pc |-> "gaussU", used |-> IF fires THEN 3 ELSE 1,
        loc |-> [f EXCEPT
                   !.shock = IF fires THEN ShockOf(d[2], d[3]) ELSE 0,
                   !.u = "zero",
                   !.v = "zero"]]

\* Mutant: a zero draw is not redrawn.
RedrawNever(g) == FALSE

\* The loop test of line 217
RedrawU(g) == g = "zero"
\* The loop test of line 218
RedrawV(g) == g = "zero"

\* Line 217: while (u === 0) u = Math.random()
GaussUStep(f, d) ==
    IF RedrawU(f.u)
    THEN [pc |-> "gaussU", used |-> 1, loc |-> [f EXCEPT !.u = d[1]]]
    ELSE [pc |-> "gaussV", used |-> 0, loc |-> f]

\* Mutant: the second loop assigns u (while (v === 0) u = Math.random()).
GaussVStepAssignsU(f, d) ==
    IF RedrawV(f.v)
    THEN [pc |-> "gaussV", used |-> 1, loc |-> [f EXCEPT !.u = d[1]]]
    ELSE [pc |-> "apply", used |-> 0, loc |-> f]

\* Line 218: while (v === 0) v = Math.random()
GaussVStep(f, d) ==
    IF RedrawV(f.v)
    THEN [pc |-> "gaussV", used |-> 1, loc |-> [f EXCEPT !.v = d[1]]]
    ELSE [pc |-> "apply", used |-> 0, loc |-> f]

\* The iteration's noise, line 180: gaussian(0, vol)
Noise(f) == GaussianValue(0, f.vol, f.u, f.v)

\* The loop's increment, line 165
NextI(k) == k + 1

\* Lines 219-220 and 180-203: the return, the balance, the users, the push.
ApplyStep(f, d) ==
    LET ret == DailyReturn(f.drift, Noise(f), f.shock, f.balance, f.anchor)
        nb == ApplyReturn(f.balance, ret)
        us == UserShock(f.shock, d[1])
        gj == IF f.shock # 0 THEN d[2] ELSE d[1]
        raw == UsersRounded(f.activeUsers, gj, us)
        au == ClampUsers(raw, f.baseUsers)
    IN [pc |-> "loop", used |-> IF f.shock # 0 THEN 2 ELSE 1,
        loc |-> [f EXCEPT
                   !.balance = nb,
                   !.userShock = us,
                   !.usersRaw = raw,
                   !.activeUsers = au,
                   !.data = Append(f.data, Point(f.date, nb, au)),
                   !.i = NextI(f.i)]]

\* Line 205: return data
ReturnStep(f) == [pc |-> "done", used |-> 0, loc |-> f]

(***************************************************************************)
(* The calls as a state machine.  Every call runs from "idle" to "done";   *)
(* its locals are declared inside the function (lines 142-166), so they    *)
(* live in a scope of the call's own.  All calls draw from the one random  *)
(* source of the process.                                                  *)
(***************************************************************************)
\* Mutant: the locals are declared at module level, one copy for all calls.
ScopeShared(c) == 1

\* The scope that holds call c's locals.
Scope(c) == c

\* Call c's locals.
L(c) == loc[Scope(c)]

\* The next n values of the source, as a sequence.
Drawn(n) == [k \in 1..n |-> Draw(k)]

\* No step draws more than the set-up's six values (lines 143-157).
MaxUse == 6
\* The values the source returns next, as far as a step may look.
Ahead == Drawn(MaxUse)

\* drawn is a record of the past, kept finite: no call that returns draws
\* more than LogCap values (6 at set-up, then per day at most 9 and the
\* rejected zeros, fewer than the period in each of the two loops); a call
\* that redraws zeros for ever stops being recorded.
LogCap == 6 + MaxDays * (9 + 2 * MaxPeriod)
Logged(new, old) == IF Len(new) <= LogCap THEN new ELSE old

\* Call c takes the step with result r.
Take(c, r) ==
    /\ pc' = [pc EXCEPT ![c] = r.pc]
    /\ loc' = [loc EXCEPT ![Scope(c)] = r.loc]
    /\ rngPos' = Consumed(r.used)
    /\ drawn' = [drawn EXCEPT ![c] = Logged(@ \o Drawn(r.used), @)]
    /\ UNCHANGED <<envVars, pageVars>>

\* The arguments the model calls the generator with: the positive ones up
\* to MaxDays, and 0 and -1.
DaysInputs == (0 - 1)..MaxDays

Call(c, n) ==
    /\ pc[c] = "idle"
    /\ asked' = [asked EXCEPT ![c] = n]
    /\ Take(c, SetUpStep(n, today, Ahead))

VolCluster(c) ==
    /\ pc[c] = "loop"
    /\ LoopCond(L(c).i, L(c).days)
    /\ Take(c, VolClusterStep(L(c), Ahead))
    /\ UNCHANGED asked

ShockDraw(c) ==
    /\ pc[c] = "shock"
    /\ Take(c, ShockStep(L(c), Ahead))
    /\ UNCHANGED asked

GaussU(c) ==
    /\ pc[c] = "gaussU"
    /\ Take(c, GaussUStep(L(c), Ahead))
    /\ UNCHANGED asked

GaussV(c) ==
    /\ pc[c] = "gaussV"
    /\ Take(c, GaussVStep(L(c), Ahead))
    /\ UNCHANGED asked

Apply(c) ==
    /\ pc[c] = "apply"
    /\ Take(c, ApplyStep(L(c), Ahead))
    /\ UNCHANGED asked

Return(c) ==
    /\ pc[c] = "loop"
    /\ ~LoopCond(L(c).i, L(c).days)
    /\ Take(c, ReturnStep(L(c)))
    /\ UNCHANGED asked

(***************************************************************************)
(* The page as first rendered: DataTableClient with its props and no       *)
(* effect run yet, the row's dialog closed.                                *)
(***************************************************************************)
\* Tables of trading requests, as lists of row ids; [] is <<>>.
initialRequests == <<1>>
ApiBases == {"http://a", "http://b"}

\* No interval is set.
NoTimer == 0 - 1

\* No response body
NoBody == [json |-> "none", success |-> FALSE, data |-> <<>>]

InitPoll ==
    /\ now = 0
    /\ apiBase = "http://a"
    /\ comp = "rendered"
    /\ effects = <<>>
    /\ polls = <<>>
    /\ requests = initialRequests
    /\ parsed = [poll |-> 0, body |-> NoBody]
    /\ toasts = <<>>

\* detail is <<>> for null and <<d>> for the record d.
InitDialog ==
    /\ open = FALSE
    /\ mode = "view"
    /\ loading = FALSE
    /\ saving = FALSE
    /\ detail = <<>>
    /\ loads = <<>>
    /\ patches = <<>>
    /\ refreshes = 0

\* The chart before its first render; useState("7d"), line 231.
InitChart ==
    /\ chart = "unrendered"
    /\ timeRange = "7d"
    /\ isMobile = FALSE
    /\ chartData = <<>>
    /\ chartCalls = <<>>

\* makeInitial, section-cards.tsx lines 98-133.  pnlToday in VND; winRate,
\* maxDrawdown, fillRate, change24h and tpmChange in thousandths of a
\* percent; the rest are integers.
makeInitial ==
    [mm |-> [totalBots |-> 15, activeBots |-> 14, pnlToday |-> 3250000,
             winRate |-> 57800, maxDrawdown |-> 1900, fillRate |-> 92500,
             change24h |-> 6400, health |-> 88],
     tf |-> [totalBots |-> 8, activeBots |-> 7, pnlToday |-> 5800000,
             winRate |-> 61200, maxDrawdown |-> 4600, fillRate |-> 84000,
             change24h |-> 9100, health |-> 82],
     nt |-> [totalBots |-> 8, activeBots |-> 8, pnlToday |-> 0 - 1450000,
             winRate |-> 47900, maxDrawdown |-> 6800, fillRate |-> 73500,
             change24h |-> 0 - 3200, health |-> 67],
     tradesPerMin |-> 128,
     tpmChange |-> 4800]

\* useState(() => makeInitial()), line 214
InitCards ==
    /\ cards = "unrendered"
    /\ stats = makeInitial
    /\ cardTicks = 0

\* A row of the users table (UserRow, part_001 lines 99-106), by its id.
Row(k) == [id |-> k]
\* The users the server rendered the page with, in server order.
initialUsers == <<Row(1), Row(2), Row(3)>>
\* No row (the ids are positive).
NoRow == 0
NoDrag == [active |-> NoRow, over |-> NoRow]
\* Lines 600-603: users.map(({ id }) => id)
IdsOf(rows) == [k \in DOMAIN rows |-> rows[k].id]

\* Mutant: the effect depends on the data object, which DataTableClient
\* builds anew at every render (lines 63-66).
UsersEffectRunsAtEveryRender(before, after) == TRUE

\* Lines 589-592: the effect with dependency [initial.users] runs after a
\* render whose initial.users is another array than the render before's.
UsersEffectRuns(before, after) == after.ref # before.ref

\* DataTable renders again, its users prop being p (lines 570-603): the
\* effect of lines 589-592, and the memo of lines 600-603.
DataTableRender(p) ==
    /\ users' = IF UsersEffectRuns(usersProp, p) THEN p.rows ELSE users
    /\ dataIds' = IdsOf(users')

\* useState(() => initial.users ?? []), line 571
InitTable ==
    /\ usersProp = [rows |-> initialUsers, ref |-> 0]
    /\ users = initialUsers
    /\ dataIds = IdsOf(initialUsers)
    /\ dragging = NoDrag

InitWidgets == InitChart /\ InitCards /\ InitTable

InitEnv ==
    /\ rngTape \in Tapes
    /\ rngPos = 1
    /\ today \in ClockDates

\* No call has been made yet; ids are the calls that will be.
InitGen(ids) ==
    /\ pc = [c \in ids |-> "idle"]
    /\ loc = [c \in ids |-> NoLocals]
    /\ asked = [c \in ids |-> 0]
    /\ drawn = [c \in ids |-> <<>>]

\* One call; the page is left as rendered.
Init == InitEnv /\ InitGen({1}) /\ InitPoll /\ InitDialog /\ InitWidgets

Next ==
    \/ \E c \in DOMAIN pc : \E n \in DaysInputs : Call(c, n)
    \/ \E c \in DOMAIN pc : VolCluster(c)
    \/ \E c \in DOMAIN pc : ShockDraw(c)
    \/ \E c \in DOMAIN pc : GaussU(c)
    \/ \E c \in DOMAIN pc : GaussV(c)
    \/ \E c \in DOMAIN pc : Apply(c)
    \/ \E c \in DOMAIN pc : Return(c)

Spec == Init /\ [][Next]_vars

\* The call's steps are taken until it returns (the function runs to
\* completion), and the random source returns a non-zero value infinitely
\* often while a redraw loop of gaussian is asking for one.
SourceFair == []<>((\A c \in DOMAIN pc : pc[c] \notin {"gaussU", "gaussV"}) \/ ~IsZero(Draw(1)))
\* (Termination depends neither on the clock nor on which non-zero values
\* the source returns: one calendar date, and the values 0 and 0.999.)
InitFair ==
    /\ Init
    /\ today = <<2024, 3, 1>>
    /\ \A k \in DOMAIN rngTape : rngTape[k] \in {"zero", "top"}
SpecFair == InitFair /\ [][Next]_vars /\ WF_vars(Next) /\ SourceFair

(***************************************************************************)
(* Two calls whose steps interleave in any order (two chart panels).  The  *)
(* calls are made with one day each, on one calendar date, from a source   *)
(* of period 1 or 2 that returns 0 and 0.999.                              *)
(***************************************************************************)
PairPeriods == {1, 2}
PairTapes == UNION {[1..p -> {"zero", "top"}] : p \in PairPeriods}
PairDays == {1}

InitPair ==
    /\ rngTape \in PairTapes
    /\ rngPos = 1
    /\ today = <<2024, 3, 1>>
    /\ InitGen({1, 2})
    /\ InitPoll /\ InitDialog /\ InitWidgets

NextPair ==
    \/ \E c \in DOMAIN pc : \E n \in PairDays : Call(c, n)
    \/ \E c \in DOMAIN pc : VolCluster(c)
    \/ \E c \in DOMAIN pc : ShockDraw(c)
    \/ \E c \in DOMAIN pc : GaussU(c)
    \/ \E c \in DOMAIN pc : GaussV(c)
    \/ \E c \in DOMAIN pc : Apply(c)
    \/ \E c \in DOMAIN pc : Return(c)

SpecPair == InitPair /\ [][NextPair]_vars

(***************************************************************************)
(* A call run alone, from start to return, on a given sequence of draws.   *)
(***************************************************************************)
\* The step a call at position p with locals f takes.
StepAt(p, f, d) ==
    CASE p = "loop" -> IF LoopCond(f.i, f.days) THEN VolClusterStep(f, d) ELSE ReturnStep(f)
      [] p = "shock" -> ShockStep(f, d)
      [] p = "gaussU" -> GaussUStep(f, d)
      [] p = "gaussV" -> GaussVStep(f, d)
      [] p = "apply" -> ApplyStep(f, d)

\* The k-th value of the sequence ds (0.999 past its end: a run that asks
\* for more than ds holds is marked short).
Nth(ds, k) == IF k <= Len(ds) THEN ds[k] ELSE "top"
\* The values a step may look at, from the sequence ds.
Heads(ds) == [k \in 1..MaxUse |-> Nth(ds, k)]

RECURSIVE RunFrom(_, _, _, _)
RunFrom(p, f, ds, short) ==
    IF p = "done" THEN [data |-> f.data, left |-> Len(ds), short |-> short]
    ELSE LET r == StepAt(p, f, Heads(ds))
         IN RunFrom(r.pc, r.loc,
                    SubSeq(ds, r.used + 1, Len(ds)),
                    short \/ r.used > Len(ds))

\* generateTradingSeries(n) run alone at calendar date clock on the draws ds.
RunAlone(n, clock, ds) ==
    LET r == SetUpStep(n, clock, Heads(ds))
    IN RunFrom(r.pc, r.loc, SubSeq(ds, r.used + 1, Len(ds)), r.used > Len(ds))

(***************************************************************************)
(* Claims about the generator.                                             *)
(***************************************************************************)
\* Calendar arithmetic on <<yyyy, mm, dd>>, independent of the day numbers.
PrevCalendarDay(ymd) ==
    IF ymd[3] > 1 THEN <<ymd[1], ymd[2], ymd[3] - 1>>
    ELSE IF ymd[2] > 1 THEN <<ymd[1], ymd[2] - 1, DaysInMonth(ymd[1], ymd[2] - 2)>>
    ELSE <<ymd[1] - 1, 12, 31>>

RECURSIVE CalendarMinus(_, _)
CalendarMinus(ymd, n) == IF n = 0 THEN ymd ELSE CalendarMinus(PrevCalendarDay(ymd), n - 1)

\* <<yyyy, mm, dd>> a before <<yyyy, mm, dd>> b
DateBefore(a, b) ==
    \/ a[1] < b[1]
    \/ a[1] = b[1] /\ a[2] < b[2]
    \/ a[1] = b[1] /\ a[2] = b[2] /\ a[3] < b[3]

\* C1: a call with days >= 1 returns exactly days points, in date order
\* (and holds as many points as it has run iterations all along).
C1_SeriesLength ==
    \A c \in DOMAIN pc :
        /\ Len(L(c).data) = L(c).i
        /\ (pc[c] = "done" /\ asked[c] >= 1) =>
              /\ Len(L(c).data) = asked[c]
              /\ \A k \in 1..Len(L(c).data) : \A l \in 1..Len(L(c).data) :
                    k < l => DateBefore(L(c).data[k].date, L(c).data[l].date)
C1_Witness == pc[1] = "done" /\ asked[1] = 3 /\ Len(L(1).data) = 3

\* C2: the running balance and every emitted totalBalance are >= 0.
C2_BalanceNonNegative ==
    \A c \in DOMAIN pc :
        /\ L(c).balance >= 0
        /\ \A k \in 1..Len(L(c).data) : L(c).data[k].totalBalance >= 0
\* A point emitted after the most negative normal sample the model has
\* (u the smallest positive double, v = 0.5) together with a negative
\* shock: the balance fell.
C2_Witness ==
    /\ pc[1] = "loop" /\ L(1).i >= 2
    /\ L(1).u = "tiny" /\ L(1).v = "half" /\ Noise(L(1)) < 0 /\ L(1).shock < 0
    /\ L(1).data[L(1).i].totalBalance < L(1).data[L(1).i - 1].totalBalance

\* C3: after the set-up and after every daily update, activeUsers (and so
\* every emitted activeUsers) is within
\* [max(5, round(0.6 base)), round(1.4 base)].
C3_UsersWithinBounds ==
    \A c \in DOMAIN pc :
        pc[c] # "idle" =>
            LET lo == Max(5, MathRound(600 * L(c).baseUsers))
                hi == MathRound(1400 * L(c).baseUsers)
            IN /\ lo <= L(c).activeUsers /\ L(c).activeUsers <= hi
               /\ \A k \in 1..Len(L(c).data) :
                     lo <= L(c).data[k].activeUsers /\ L(c).data[k].activeUsers <= hi
\* The rounded value fell below the floor and the clamp raised it.
C3_Witness ==
    /\ pc[1] = "loop" /\ L(1).i >= 1
    /\ L(1).usersRaw < Max(5, MathRound(600 * L(1).baseUsers))
    /\ L(1).data[L(1).i].activeUsers = Max(5, MathRound(600 * L(1).baseUsers))

\* C4: point k of a call carries the calendar date (days - k) days before
\* the generation date (k = 1..days): consecutive dates are one calendar day
\* apart, and the last one is the generation date.
C4_DatesContiguous ==
    \A c \in DOMAIN pc :
        LET d == L(c).data
        IN /\ \A k \in 1..Len(d) : d[k].date = CalendarMinus(today, asked[c] - k)
           /\ \A k \in 1..(Len(d) - 1) : d[k].date = PrevCalendarDay(d[k + 1].date)
           /\ (pc[c] = "done" /\ asked[c] >= 1) => d[asked[c]].date = today
\* A series that crosses the leap day.
C4_Witness ==
    /\ pc[1] = "done" /\ asked[1] = 3 /\ today = <<2024, 3, 1>>
    /\ L(1).data[1].date = <<2024, 2, 28>> /\ L(1).data[2].date = <<2024, 2, 29>>

\* C5: under SpecFair, a call with days >= 1 returns, having run the loop
\* body exactly days times.
C5_Terminates ==
    \A c \in {1} :
        (pc[c] # "idle" /\ asked[c] >= 1)
            ~> (pc[c] = "done" /\ L(c).i = asked[c] /\ Len(L(c).data) = asked[c])
\* A call that returned although the source gives two zeros in three draws
\* (both redraw loops of every iteration reject two draws).
C5_Witness ==
    /\ pc[1] = "done" /\ asked[1] = 3 /\ L(1).i = 3
    /\ rngTape = <<"zero", "zero", "top">>

\* C6: when gaussian computes sqrt(-2 ln u) cos(2 pi v), neither u nor v
\* is 0.
C6_GaussianInputsNonZero ==
    \A c \in DOMAIN pc : pc[c] = "apply" => (~IsZero(L(c).u) /\ ~IsZero(L(c).v))
\* The sampler reached its formula after rejecting zero draws.
C6_Witness ==
    /\ pc[1] = "apply"
    /\ rngTape = <<"zero", "top">> /\ rngPos = 1

\* C7: with the steps of two calls interleaved in any order, a step of one
\* call leaves the other call's locals as they were, and a call that has
\* returned holds exactly the series the generator run alone returns on the
\* argument and the draws that call received.
C7_CallsIndependent ==
    /\ [](\A c \in DOMAIN pc :
            pc[c] = "done" =>
                LET alone == RunAlone(asked[c], today, drawn[c])
                IN /\ ~alone.short /\ alone.left = 0
                   /\ L(c).data = alone.data)
    /\ [][\A c \in DOMAIN pc :
            (pc'[c] = pc[c] /\ drawn'[c] = drawn[c]) => loc'[c] = loc[c]]_vars
\* Both calls have returned, after steps of the second came between steps
\* of the first, and on different draws: their series differ.
C7_Witness ==
    /\ pc[1] = "done" /\ pc[2] = "done"
    /\ L(1).data # L(2).data
    /\ drawn[1] # drawn[2]

\* The values a call fixed at its start, recomputed from the draws it
\* received: startBalance (draws 1, 2), drift (draw 4), anchor (draw 6).
StartOf(c) == StartBalance(drawn[c][1], drawn[c][2])
DriftOf(c) == RDiv((Milli(drawn[c][4]) - 450) * 12, 1000)
AnchorOf(c) == StartOf(c) + RDiv(StartOf(c) * (Milli(drawn[c][6]) - 400), 20000)

\* C14: a daily step takes the balance b to
\* max(0, b * (1 + drift + noise + shock - 0.08 * (b - anchor) / anchor)),
\* with b the balance before the step and drift and anchor the values fixed
\* at the start of the call, and emits totalBalance = round(new balance).
C14_BalanceUpdate ==
    [][\A c \in DOMAIN pc :
          (pc[c] = "apply" /\ pc'[c] = "loop") =>
              LET f == L(c)
                  b == f.balance
                  ret == DriftOf(c) + Noise(f) + f.shock
                            + RDiv((AnchorOf(c) - b) * 800, AnchorOf(c))
                  nb == Max(0, b + RDiv(b * ret, 10000))
              IN /\ L(c)'.balance = nb
                 /\ L(c)'.data = Append(f.data, L(c)'.data[Len(f.data) + 1])
                 /\ L(c)'.data[Len(f.data) + 1].totalBalance = RDiv(nb, 10)
                 /\ L(c)'.drift = DriftOf(c) /\ L(c)'.anchor = AnchorOf(c)]_vars
\* The second day's step started above the anchor, on a day without noise
\* to speak of and without shock, and the balance came down.
C14_Witness ==
    /\ pc[1] = "loop" /\ L(1).i = 2
    /\ L(1).shock = 0
    /\ L(1).data[1].totalBalance * 10 > L(1).anchor + 10
    /\ L(1).data[2].totalBalance < L(1).data[1].totalBalance
    /\ L(1).balance > 0

\* C15: from its set-up on a call's volatility is within [0.003, 0.03]
\* (30..300 basis points); the set-up seeds it within [0.004, 0.014]; it
\* changes only in a daily step whose clustering draw is below 0.18, and
\* such a step stores clamp(vol * factor, 0.003, 0.03) with a factor in
\* [0.85, 1.55].
C15_VolatilityBounded ==
    /\ [](\A c \in DOMAIN pc : pc[c] # "idle" => (30 <= L(c).vol /\ L(c).vol <= 300))
    /\ [][\A c \in DOMAIN pc :
            LET w == L(c).vol
                factor == 8500 + 7 * Milli(Draw(2))
                scaled == RDiv(w * factor, 10000)
            IN /\ (pc[c] = "idle" /\ pc'[c] # "idle")
                     => (40 <= L(c)'.vol /\ L(c)'.vol <= 140)
               /\ (pc[c] # "idle" /\ L(c)'.vol # w)
                     => (pc[c] = "loop" /\ pc'[c] = "shock" /\ Milli(Draw(1)) < 180)
               /\ (pc[c] = "loop" /\ pc'[c] = "shock" /\ Milli(Draw(1)) < 180)
                     => /\ 8500 <= factor /\ factor <= 15500
                        /\ L(c)'.vol = Max(30, Min(300, scaled))]_vars
\* Seeded at 0.004 and scaled down on the first two days, the volatility
\* fell below 0.003 on the third and the clamp raised it.
C15_Witness ==
    /\ pc[1] = "shock" /\ L(1).i = 2
    /\ Milli(drawn[1][5]) = 0
    /\ L(1).vol = 30

\* C16: a call's drift is (U - 0.45) * 0.0012 for the fourth value the call
\* draws in its set-up, before the loop; no later step changes it; it lies
\* in [-0.00225, +0.00126] (-22.5 to 12.6 basis points).
C16_DriftFixed ==
    /\ [](\A c \in DOMAIN pc :
            pc[c] # "idle" =>
                /\ L(c).drift = DriftOf(c)
                /\ 2 * L(c).drift >= 0 - 45 /\ 10 * L(c).drift <= 126)
    /\ [][\A c \in DOMAIN pc :
            /\ (pc[c] = "idle" /\ pc'[c] # "idle")
                  => (L(c)'.i = 0 /\ L(c)'.data = <<>> /\ drawn'[c][4] = Draw(4))
            /\ pc[c] # "idle"
                  => (L(c)'.drift = L(c).drift /\ drawn'[c][4] = drawn[c][4])]_vars
\* A three-day series generated with a negative drift, still in place at
\* the return.
C16_Witness ==
    /\ pc[1] = "done" /\ asked[1] = 3 /\ L(1).i = 3
    /\ Milli(drawn[1][4]) < 450 /\ L(1).drift < 0

\* The magnitude of x.
Abs(x) == IF x < 0 THEN 0 - x ELSE x

\* C17: a call's shock is 0 or has a magnitude within [0.008, 0.028]
\* (80..280 basis points); a daily step sets it to 0 exactly when its
\* shock draw is not below 0.12.
C17_ShockValues ==
    /\ [](\A c \in DOMAIN pc :
            \/ L(c).shock = 0
            \/ (80 <= Abs(L(c).shock) /\ Abs(L(c).shock) <= 280))
    /\ [][\A c \in DOMAIN pc :
            (pc[c] = "shock" /\ pc'[c] = "gaussU")
                => (L(c)'.shock = 0 <=> ~(Milli(Draw(1)) < 120))]_vars
\* The shock draw fired and gave the largest upward shock.
C17_Witness ==
    /\ pc[1] = "gaussU"
    /\ L(1).shock = 280

\* C18: in a daily step userShock is 0 exactly when the shock is 0, and
\* otherwise has the shock's sign and a magnitude within [1, 3]
\* (thousandths: 1000..3000); the value rounded before the clamp differs
\* from the day's activeUsers by round(jitter + userShock) with the jitter
\* (U - 0.5) * 6 in [-3, 3): by at most 3 without a shock, at most 6 with.
C18_UserShockAndJitter ==
    [][\A c \in DOMAIN pc :
          (pc[c] = "apply" /\ pc'[c] = "loop") =>
              LET sh == L(c).shock
                  us == L(c)'.userShock
                  jitter == (Milli(IF sh # 0 THEN Draw(2) ELSE Draw(1)) - 500) * 6
                  change == L(c)'.usersRaw - L(c).activeUsers
              IN /\ us = 0 <=> sh = 0
                 /\ sh # 0 => /\ (us > 0 <=> sh > 0)
                              /\ 1000 <= Abs(us) /\ Abs(us) <= 3000
                 /\ 0 - 3000 <= jitter /\ jitter < 3000
                 /\ change = (jitter + us + 500) \div 1000
                 /\ sh = 0 => Abs(change) <= 3
                 /\ sh # 0 => Abs(change) <= 6]_vars
\* The first day had a shock, and the jitter pushed the same way: the
\* rounded value is more than 3 away from the users the day began with.
C18_Witness ==
    /\ pc[1] = "loop" /\ L(1).i = 1
    /\ L(1).shock # 0 /\ L(1).userShock # 0
    /\ Abs(L(1).usersRaw - L(1).baseUsers) >= 4

\* C19: the set-up starts the balance within [270,000,000, 1,200,000,000]
\* (27000..120000 units of 10,000) and sets the anchor within 98% to 103%
\* of it (to half a unit, the rounding of the anchor); the anchor is
\* positive and no later step changes it.
C19_StartAndAnchor ==
    /\ [](\A c \in DOMAIN pc : pc[c] # "idle" => L(c).anchor > 0)
    /\ [][\A c \in DOMAIN pc :
            /\ (pc[c] = "idle" /\ pc'[c] # "idle")
                  => LET start == L(c)'.balance
                         a == L(c)'.anchor
                     IN /\ 27000 <= start /\ start <= 120000
                        /\ 98 * start - 50 <= 100 * a
                        /\ 100 * a <= 103 * start + 50
            /\ pc[c] # "idle" => L(c)'.anchor = L(c).anchor]_vars
\* The smallest start, 270,000,000, with the anchor at 98% of it.
C19_Witness ==
    /\ pc[1] = "loop" /\ L(1).i = 0 /\ asked[1] >= 1
    /\ L(1).balance = 27000
    /\ L(1).anchor = 26460

\* ChartAreaInteractive, lines 242-246: what the chart derives from the
\* series.  An index outside the array gives undefined, written <<>>.
ElementAt(data, k0) == IF 0 <= k0 /\ k0 < Len(data) THEN <<data[k0 + 1]>> ELSE <<>>
\* Line 242: chartData[chartData.length - 1]
latest(data) == ElementAt(data, Len(data) - 1)
\* Line 243: chartData[chartData.length - 2]
prev(data) == ElementAt(data, Len(data) - 2)
\* Line 244
delta(data) ==
    IF latest(data) # <<>> /\ prev(data) # <<>>
    THEN latest(data)[1].totalBalance - prev(data)[1].totalBalance
    ELSE 0
\* Lines 245-246, in hundredths of a percent
deltaPct(data) ==
    IF latest(data) # <<>> /\ prev(data) # <<>> /\ prev(data)[1].totalBalance > 0
    THEN RDiv(delta(data) * 10000, prev(data)[1].totalBalance)
    ELSE 0

\* C27: a call with days <= 0 keeps days as given, never enters the loop
\* body, and its one step after the set-up is the return of the empty
\* series; for that series latest and prev are undefined and delta and
\* deltaPct are 0.
C27_NonPositiveDaysGiveEmptySeries ==
    /\ [](\A c \in DOMAIN pc :
            (pc[c] # "idle" /\ asked[c] <= 0) =>
                /\ L(c).days = asked[c]
                /\ pc[c] \in {"loop", "done"}
                /\ L(c).i = 0 /\ L(c).data = <<>>
                /\ latest(L(c).data) = <<>> /\ prev(L(c).data) = <<>>
                /\ delta(L(c).data) = 0 /\ deltaPct(L(c).data) = 0)
    /\ [][\A c \in DOMAIN pc :
            (pc[c] = "loop" /\ asked[c] <= 0 /\ pc'[c] # pc[c])
                => (pc'[c] = "done" /\ L(c)'.data = <<>>)]_vars
\* The call with days = -1 has returned.
C27_Witness ==
    /\ pc[1] = "done" /\ asked[1] = 0 - 1
    /\ L(1).data = <<>> /\ Len(drawn[1]) = 6

(***************************************************************************)
(* DataTableClient's polling effect (data-table-client.tsx, lines 14-60).  *)
(* Time is the page's clock in ms; the interval fires when it is due.  A   *)
(* call of load() goes through the phases                                  *)
(*   "fetch"     awaiting fetch() (line 15),                               *)
(*   "body"      awaiting res.json() (line 17), the body still arriving,   *)
(*   "parse"     the body is read in full and the settling of res.json()   *)
(*               is queued (what the body holds shows when it settles),    *)
(*   "aborting"  the awaited promise is rejected with AbortError and the   *)
(*               catch has not run yet,                                    *)
(*   "settled"   load() has returned.                                      *)
(* controller.abort() rejects what is awaited in "fetch" and "body"; a     *)
(* body read in full is no longer readable, so abort leaves "parse" alone. *)
(***************************************************************************)
\* Line 53: the interval, in ms
PollIntervalMs == 30000
\* The step of the clock
TickMs == PollIntervalMs \div 2
\* The clock stops at MaxTicks steps
MaxTicks == 4
MaxNow == MaxTicks * TickMs

\* Line 38: the polled URL
PollUrl(base) == <<base, "/api/user/table">>

\* What a response body holds: text that is not JSON, null, or an object
\* {success, data}.
Tables == {<<2>>, <<2, 3>>}
Bodies ==
    {[json |-> "malformed", success |-> FALSE, data |-> <<>>],
     [json |-> "null", success |-> FALSE, data |-> <<>>],
     [json |-> "object", success |-> FALSE, data |-> <<>>]}
    \cup {[json |-> "object", success |-> TRUE, data |-> d] : d \in Tables}

\* Mutant: the table is emptied whatever the response says.
AppliedAlwaysEmpty(b) == <<>>

\* Line 42: res?.success ? res.data : []
Applied(b) == IF b.json = "object" /\ b.success THEN b.data ELSE <<>>

\* toast.error(...), line 45; toasts are recorded by type, without the text.
ToastError == [type |-> "error"]

\* Mutant: the cleanup leaves the interval running.
clearIntervalForgotten(due) == due

\* Line 58: clearInterval(t)
clearInterval(due) == NoTimer

\* Line 53: setInterval(load, 30_000), as the time of the next firing
setInterval(at) == at + PollIntervalMs

\* Lines 36-39: load() calls fetchJson, which calls fetch with the signal
\* (an aborted signal rejects at once).
load(g, e) ==
    [eff |-> g, at |-> now, url |-> PollUrl(e.base),
     phase |-> IF e.aborted THEN "aborting" ELSE "fetch"]

\* Lines 32-53: the effect's set-up, as run number Len(es) + 1
SetUpEffect(es, base) ==
    Append(es, [mounted |-> TRUE, aborted |-> FALSE, t |-> setInterval(now),
                base |-> base, start |-> now, end |-> NoTimer])

\* Lines 55-59: the cleanup of run e
CleanUp(e) ==
    [e EXCEPT !.mounted = FALSE, !.aborted = TRUE, !.t = clearInterval(e.t),
              !.end = now]

\* controller.abort() of run g, on the calls of load() in flight
AbortPolls(ps, g) ==
    [i \in DOMAIN ps |->
        IF ps[i].eff = g /\ ps[i].phase \in {"fetch", "body"}
        THEN [ps[i] EXCEPT !.phase = "aborting"]
        ELSE ps[i]]

\* The live run of the effect
Live == Len(effects)

\* React runs the effect after the first commit.
Mount ==
    /\ comp = "rendered"
    /\ comp' = "mounted"
    /\ effects' = SetUpEffect(effects, apiBase)
    /\ polls' = Append(polls, load(Live + 1, effects'[Live + 1]))
    /\ UNCHANGED <<now, apiBase, requests, toasts, parsed, notPoll>>

\* apiBase changes (deps, line 60): the cleanup, then the effect again.
\* The prop takes each of its values once.
Retrigger(b) ==
    /\ comp = "mounted"
    /\ b # apiBase
    /\ \A g \in DOMAIN effects : effects[g].base # b
    /\ apiBase' = b
    /\ effects' = SetUpEffect([effects EXCEPT ![Live] = CleanUp(@)], b)
    /\ polls' = Append(AbortPolls(polls, Live), load(Live + 1, effects'[Live + 1]))
    /\ UNCHANGED <<now, comp, requests, toasts, parsed, notPoll>>

Unmount ==
    /\ comp = "mounted"
    /\ comp' = "unmounted"
    /\ effects' = [effects EXCEPT ![Live] = CleanUp(@)]
    /\ polls' = AbortPolls(polls, Live)
    /\ UNCHANGED <<now, apiBase, requests, toasts, parsed, notPoll>>

\* The interval of run g fires: load()
IntervalFire(g) ==
    /\ effects[g].t = now
    /\ polls' = Append(polls, load(g, effects[g]))
    /\ effects' = [effects EXCEPT ![g].t = setInterval(now)]
    /\ UNCHANGED <<now, apiBase, comp, requests, toasts, parsed, notPoll>>

\* The response's head arrives: fetch() resolves; line 16 throws unless ok.
Respond(i, ok) ==
    /\ polls[i].phase = "fetch"
    /\ IF ok
       THEN /\ polls' = [polls EXCEPT ![i].phase = "body"]
            /\ UNCHANGED toasts
       ELSE /\ polls' = [polls EXCEPT ![i].phase = "settled"]
            /\ toasts' = Append(toasts, ToastError)
    /\ UNCHANGED <<now, apiBase, comp, effects, requests, parsed, notPoll>>

\* Mutant: the catch swallows the failure and empties the table.
NetworkFailSilent(i) ==
    /\ polls[i].phase \in {"fetch", "body"}
    /\ polls' = [polls EXCEPT ![i].phase = "settled"]
    /\ requests' = <<>>
    /\ UNCHANGED <<now, apiBase, comp, effects, toasts, parsed, notPoll>>

\* The connection fails: what is awaited rejects with TypeError.
NetworkFail(i) ==
    /\ polls[i].phase \in {"fetch", "body"}
    /\ polls' = [polls EXCEPT ![i].phase = "settled"]
    /\ toasts' = Append(toasts, ToastError)
    /\ UNCHANGED <<now, apiBase, comp, effects, requests, parsed, notPoll>>

\* The body has arrived in full.
BodyRead(i) ==
    /\ polls[i].phase = "body"
    /\ polls' = [polls EXCEPT ![i].phase = "parse"]
    /\ UNCHANGED <<now, apiBase, comp, effects, requests, toasts, parsed, notPoll>>

\* res.json() settles, the body holding b: lines 41-42 on a value, lines
\* 44-45 on SyntaxError.  setRequests renders DataTableClient and, with the
\* new data object (lines 62-69), DataTable.
ParseDone(i, b) ==
    /\ polls[i].phase = "parse"
    /\ polls' = [polls EXCEPT ![i].phase = "settled"]
    /\ parsed' = [poll |-> i, body |-> b]
    /\ IF b.json = "malformed"
       THEN /\ toasts' = Append(toasts, ToastError)
            /\ UNCHANGED requests
            /\ UNCHANGED <<users, dataIds>>
       ELSE /\ IF effects[polls[i].eff].mounted
               THEN /\ requests' = Applied(b)
                    /\ DataTableRender(usersProp)
               ELSE UNCHANGED <<requests, users, dataIds>>
            /\ UNCHANGED toasts
    /\ UNCHANGED <<now, apiBase, comp, effects, usersProp, dragging>>
    /\ UNCHANGED <<rngTape, rngPos, today, genVars, dialogVars, chartVars, cardVars>>

\* Line 44: the catch on AbortError returns.
AbortDelivered(i) ==
    /\ polls[i].phase = "aborting"
    /\ polls' = [polls EXCEPT ![i].phase = "settled"]
    /\ UNCHANGED <<now, apiBase, comp, effects, requests, toasts, parsed, notPoll>>

\* The times at which an interval is due
Due == {effects[g].t : g \in {h \in DOMAIN effects : effects[h].t # NoTimer}}

\* Time passes, up to the next time an interval is due.  (The clock starts
\* when the effect first runs.)
Elapse ==
    /\ comp # "rendered"
    /\ now < MaxNow
    /\ \A d \in Due : d > now
    /\ now' = IF \E d \in Due : d < now + TickMs
              THEN CHOOSE d \in Due : \A e \in Due : d <= e
              ELSE now + TickMs
    /\ UNCHANGED <<apiBase, comp, effects, polls, requests, toasts, parsed, notPoll>>

\* The generator is not called.
InitGenQuiet ==
    /\ rngTape = <<"top">>
    /\ rngPos = 1
    /\ today = <<2024, 3, 1>>
    /\ InitGen({1})

InitPage == InitGenQuiet /\ InitPoll /\ InitDialog /\ InitWidgets

NextPoll ==
    \/ Mount
    \/ \E b \in ApiBases : Retrigger(b)
    \/ Unmount
    \/ \E g \in DOMAIN effects : IntervalFire(g)
    \/ \E i \in DOMAIN polls : \E ok \in BOOLEAN : Respond(i, ok)
    \/ \E i \in DOMAIN polls : NetworkFail(i)
    \/ \E i \in DOMAIN polls : BodyRead(i)
    \/ \E i \in DOMAIN polls : \E b \in Bodies : ParseDone(i, b)
    \/ \E i \in DOMAIN polls : AbortDelivered(i)
    \/ Elapse

SpecPoll == InitPage /\ [][NextPoll]_vars

(***************************************************************************)
(* Claims about the polling effect.                                        *)
(***************************************************************************)
\* The fetches run g of the effect has issued, in order
FetchesOf(g) == SelectSeq(polls, LAMBDA q : q.eff = g)
\* Their number, in the list ps of calls
Issued(ps, g) == Cardinality({i \in DOMAIN ps : ps[i].eff = g})

\* C8: every run of the effect fetches <apiBase>/api/user/table at its
\* set-up and then at each multiple of 30,000 ms after it, as long as it is
\* mounted: fetch k is issued at start + (k - 1) * 30000, none is missed and
\* none is early; the cleanup clears the interval, and a run that has been
\* cleaned up never issues a fetch again.
C8_PollsOnMountAndEveryInterval ==
    /\ [](\A g \in DOMAIN effects :
            LET e == effects[g]
                fs == FetchesOf(g)
                upto == IF e.mounted THEN now ELSE e.end
            IN /\ Len(fs) >= 1
               /\ \A k \in 1..Len(fs) :
                     /\ fs[k].at = e.start + (k - 1) * 30000
                     /\ fs[k].url = <<e.base, "/api/user/table">>
               /\ e.start + (Len(fs) - 1) * 30000 <= upto
               /\ upto <= e.start + Len(fs) * 30000
               /\ ~e.mounted => e.t = NoTimer)
    /\ [][\A g \in DOMAIN effects :
            ~effects[g].mounted => Issued(polls', g) = Issued(polls, g)]_vars
\* The effect fetched on mount and 30,000 ms later, was unmounted at
\* 45,000 ms, and the clock reached 60,000 ms without another fetch.
C8_Witness ==
    /\ comp = "unmounted" /\ now = 60000
    /\ effects[1].start = 0 /\ effects[1].end = 45000
    /\ Issued(polls, 1) = 2

\* C9: once a run of the effect is cleaned up (unmount or re-trigger), its
\* signal is aborted and none of its calls is left awaiting fetch or the
\* body, and no completion of one of its calls (response, abort, failure)
\* changes requests or shows a toast.
C9_TeardownSilencesCompletions ==
    [][/\ \A g \in DOMAIN effects' :
            ~effects'[g].mounted => effects'[g].aborted
       /\ \A i \in DOMAIN polls' :
            ~effects'[polls'[i].eff].mounted => polls'[i].phase \notin {"fetch", "body"}
       /\ \A i \in DOMAIN polls :
            (~effects[polls[i].eff].mounted /\ polls'[i].phase # polls[i].phase)
                => (requests' = requests /\ toasts' = toasts)]_vars

\* C11: when a call of load() of a mounted run fails while awaiting fetch
\* or the body (network error, non-OK status), exactly one error toast is
\* added, requests keeps its rows and the run's interval stays set for its
\* next multiple of 30,000 ms; when the catch receives AbortError, no toast
\* is added and requests keeps its rows.
C11_FailedPollToastsAndKeepsRows ==
    [][\A i \in DOMAIN polls :
          LET g == polls[i].eff
          IN /\ (/\ polls[i].phase \in {"fetch", "body"}
                 /\ polls'[i].phase = "settled"
                 /\ effects[g].mounted)
                  => /\ toasts' = Append(toasts, [type |-> "error"])
                     /\ requests' = requests
                     /\ effects'[g].mounted
                     /\ effects'[g].t = effects[g].t
                     /\ effects[g].t > now \/ effects[g].t = now
                     /\ (effects[g].t - effects[g].start) % 30000 = 0
             /\ (polls[i].phase = "aborting" /\ polls'[i].phase = "settled")
                  => (toasts' = toasts /\ requests' = requests)]_vars
\* The first poll failed with a toast, the rows are the initial ones, and
\* the run polled again 30,000 ms later.
C11_Witness ==
    /\ Len(polls) = 2 /\ polls[1].eff = 1 /\ polls[2].eff = 1
    /\ polls[1].phase = "settled" /\ polls[2].at = polls[1].at + 30000
    /\ toasts = <<[type |-> "error"]>>
    /\ requests = initialRequests
    /\ effects[1].mounted

\* C13: when the successful response of a poll A is applied after the
\* successful response of a later poll B of the same mounted run has been
\* applied, requests still holds B's data afterwards.
C13_LaterPollWins ==
    [][\A i \in DOMAIN polls :
          (/\ polls[i].phase = "parse" /\ polls'[i].phase = "settled"
           /\ effects[polls[i].eff].mounted
           /\ parsed'.poll = i
           /\ parsed'.body.json = "object" /\ parsed'.body.success
           /\ parsed.poll > i
           /\ polls[parsed.poll].eff = polls[i].eff
           /\ parsed.body.json = "object" /\ parsed.body.success
           /\ requests = parsed.body.data)
              => requests' = parsed.body.data]_vars

\* C20: when res.json() of a poll of a mounted run resolves, requests
\* becomes the response's data if its success flag is true, and the empty
\* list if the flag is false or the body is null, whatever rows it held,
\* and no toast is added; requests changes in no other step.
C20_OnlySuccessDataIsStored ==
    [][/\ \A i \in DOMAIN polls :
            (/\ polls[i].phase = "parse" /\ polls'[i].phase = "settled"
             /\ effects[polls[i].eff].mounted
             /\ parsed'.body.json # "malformed")
                => /\ parsed'.poll = i
                   /\ toasts' = toasts
                   /\ requests' = IF parsed'.body.json = "object" /\ parsed'.body.success
                                  THEN parsed'.body.data ELSE <<>>
       /\ requests' # requests
            => \E i \in DOMAIN polls :
                  /\ polls[i].phase = "parse" /\ polls'[i].phase = "settled"
                  /\ effects[polls[i].eff].mounted
                  /\ parsed'.poll = i
                  /\ parsed'.body.json \in {"object", "null"}]_vars
\* The second poll was answered 200 with success false after the first
\* had stored rows: the table is empty and no toast was shown.
C20_Witness ==
    /\ Len(polls) = 2 /\ polls[1].phase = "settled" /\ polls[2].phase = "settled"
    /\ parsed = [poll |-> 2, body |-> [json |-> "object", success |-> FALSE, data |-> <<>>]]
    /\ effects[1].mounted /\ polls[2].eff = 1
    /\ requests = <<>> /\ toasts = <<>>

(***************************************************************************)
(* The view/edit dialog of one row (part_001: fetchUserDetail, lines       *)
(* 158-163; patchUser, 165-173; UserDetailDialog, 199-363; UserRowActions, *)
(* 365-422).  Field values are strings; "null" stands for null, "true" and *)
(* "false" for the booleans.  The state is rendered before the next event, *)
(* so the detail in onConfirm's closure is the detail state.               *)
(***************************************************************************)
\* The dialog is opened at most MaxOpens times, Confirm pressed at most
\* MaxPatches times
MaxOpens == 2
MaxPatches == 2

\* The row's id (line 498: userId = row.original.id)
userId == 7

\* The records GET /api/user/detail/:id answers with (UserDetail, lines
\* 123-130); the server chooses the record, id included.
ServerDetails ==
    {[id |-> 7, email |-> "a@x", first_name |-> "An", last_name |-> "Le",
      phone |-> "null", is_active |-> "true"],
     [id |-> 8, email |-> "b@x", first_name |-> "Bo", last_name |-> "Vu",
      phone |-> "0901", is_active |-> "false"]}

\* What json.data is (line 162): a record, or undefined (falsy, <<>>)
DetailAnswers == {<<>>} \cup {<<d>> : d \in ServerDetails}

\* What the inputs' onChange handlers write (lines 282-333): the text
\* typed, or v === "active"
Typed ==
    [email |-> {"new@x"}, first_name |-> {"Zed"}, last_name |-> {"Ng"},
     phone |-> {"0999"}, is_active |-> {"true", "false"}]

ToastSuccess == [type |-> "success"]

\* Mutant: the PATCH goes to the row's id.
PatchIdOfRow(d) == userId

\* Line 241: the id onConfirm passes to patchUser
PatchId(d) == d.id

\* Lines 241-247: the object onConfirm passes to patchUser
PatchPayload(d) ==
    [email |-> d.email, first_name |-> d.first_name, last_name |-> d.last_name,
     phone |-> d.phone, is_active |-> d.is_active]

\* Line 169: JSON.stringify(payload) writes each property whose value is
\* not undefined.
JSONStringify(payload) ==
    [k \in {j \in DOMAIN payload : payload[j] # "undefined"} |-> payload[k]]

\* Lines 166-170: the request patchUser sends
patchUser(id, payload) ==
    [method |-> "PATCH", url |-> <<"/api/user/", id>>,
     body |-> JSONStringify(payload), phase |-> "pending"]

\* A call that has settled: its closure and its body are of no use any more.
LoadSettled(c) == [c EXCEPT !.phase = "settled", !.mounted = FALSE]
PatchResolved(c) == [c EXCEPT !.phase = "resolved", !.body = <<>>]
PatchRejected(c) == [c EXCEPT !.phase = "rejected", !.body = <<>>]

\* Lines 232-234: the cleanup of the effect run that started the last load
\* (a run with open false has none).
LoadsCleanedUp ==
    IF open THEN [loads EXCEPT ![Len(loads)].mounted = FALSE] ELSE loads

\* Lines 389-393 and 400-404: View or Edit is chosen; the effect (lines
\* 217-235) runs with open true.
Select(m) ==
    /\ ~open
    /\ Len(loads) < MaxOpens
    /\ mode' = m
    /\ open' = TRUE
    /\ loading' = TRUE
    /\ loads' = Append(loads, [id |-> userId, mounted |-> TRUE, phase |-> "pending"])
    /\ UNCHANGED <<saving, detail, patches, toasts, refreshes, notDialog>>

\* onOpenChange(false): Cancel, Escape, a click outside
Close ==
    /\ open
    /\ open' = FALSE
    /\ loads' = LoadsCleanedUp
    /\ UNCHANGED <<mode, loading, saving, detail, patches, toasts, refreshes, notDialog>>

\* Mutant: the response is stored without looking at mounted.
LoadOkUnguarded(l, r) ==
    /\ loads[l].phase = "pending"
    /\ loads' = [loads EXCEPT ![l] = LoadSettled(@)]
    /\ detail' = r
    /\ loading' = FALSE
    /\ UNCHANGED <<open, mode, saving, patches, toasts, refreshes, notDialog>>

\* fetchUserDetail resolves with json.data: lines 222-224 and 229-231.
LoadOk(l, r) ==
    /\ loads[l].phase = "pending"
    /\ loads' = [loads EXCEPT ![l] = LoadSettled(@)]
    /\ detail' = IF loads[l].mounted THEN r ELSE detail
    /\ loading' = IF loads[l].mounted THEN FALSE ELSE loading
    /\ UNCHANGED <<open, mode, saving, patches, toasts, refreshes, notDialog>>

\* fetchUserDetail rejects: lines 225-231.
LoadFail(l) ==
    /\ loads[l].phase = "pending"
    /\ loads' = [loads EXCEPT ![l] = LoadSettled(@)]
    /\ toasts' = Append(toasts, ToastError)
    /\ detail' = IF loads[l].mounted THEN <<>> ELSE detail
    /\ loading' = IF loads[l].mounted THEN FALSE ELSE loading
    /\ UNCHANGED <<open, mode, saving, patches, refreshes, notDialog>>

\* An input's onChange in edit mode: setDetail((p) => (p ? {...p, f: v} : p))
Edit(f, v) ==
    /\ open /\ mode = "edit"
    /\ detail # <<>>
    /\ detail[1][f] # v
    /\ detail' = <<[detail[1] EXCEPT ![f] = v]>>
    /\ UNCHANGED <<open, mode, loading, saving, loads, patches, toasts, refreshes, notDialog>>

\* Mutant: the button is not disabled while a save is in progress.
ConfirmDisabledIgnoresSaving == loading \/ detail = <<>>

\* Line 355: disabled={saving || loading || !detail}
ConfirmDisabled == saving \/ loading \/ detail = <<>>

\* Confirm is pressed (line 355: rendered in edit mode, disabled while
\* saving || loading || !detail): onConfirm up to the await, lines 237-247.
Confirm ==
    /\ open /\ mode = "edit"
    /\ ~ConfirmDisabled
    /\ Len(patches) < MaxPatches
    /\ saving' = TRUE
    /\ patches' = Append(patches, patchUser(PatchId(detail[1]), PatchPayload(detail[1])))
    /\ UNCHANGED <<open, mode, loading, detail, loads, toasts, refreshes, notDialog>>

\* The PATCH succeeds: lines 248-250 and 254 (router.refresh() re-renders
\* the page's server data, which this dialog does not read).
PatchOk(q) ==
    /\ patches[q].phase = "pending"
    /\ patches' = [patches EXCEPT ![q] = PatchResolved(@)]
    /\ toasts' = Append(toasts, ToastSuccess)
    /\ open' = FALSE
    /\ loads' = LoadsCleanedUp
    /\ refreshes' = refreshes + 1
    /\ saving' = FALSE
    /\ UNCHANGED <<mode, loading, detail, notDialog>>

\* Mutant: the failure is handled as the success is, but for the toast.
PatchFailCloses(q) ==
    /\ patches[q].phase = "pending"
    /\ patches' = [patches EXCEPT ![q] = PatchRejected(@)]
    /\ toasts' = Append(toasts, ToastError)
    /\ open' = FALSE
    /\ loads' = LoadsCleanedUp
    /\ refreshes' = refreshes + 1
    /\ saving' = FALSE
    /\ UNCHANGED <<mode, loading, detail, notDialog>>

\* The PATCH fails (line 171, or fetch rejects): lines 251-254.
PatchFail(q) ==
    /\ patches[q].phase = "pending"
    /\ patches' = [patches EXCEPT ![q] = PatchRejected(@)]
    /\ toasts' = Append(toasts, ToastError)
    /\ saving' = FALSE
    /\ UNCHANGED <<open, mode, loading, detail, loads, refreshes, notDialog>>

NextDialog ==
    \/ \E m \in {"view", "edit"} : Select(m)
    \/ Close
    \/ \E l \in DOMAIN loads : \E r \in DetailAnswers : LoadOk(l, r)
    \/ \E l \in DOMAIN loads : LoadFail(l)
    \/ \E f \in DOMAIN Typed : \E v \in Typed[f] : Edit(f, v)
    \/ Confirm
    \/ \E q \in DOMAIN patches : PatchOk(q)
    \/ \E q \in DOMAIN patches : PatchFail(q)

SpecDialog == InitPage /\ [][NextDialog]_vars

(***************************************************************************)
(* Claims about the dialog.                                                *)
(***************************************************************************)
\* C10: the step that issues a PATCH is taken in the open edit dialog with
\* a detail record loaded, and the PATCH goes to /api/user/<id of that
\* record> with a body of exactly the five fields email, first_name,
\* last_name, phone, is_active, each with the value detail holds when
\* Confirm is pressed.
C10_PatchFromDetail ==
    [][Len(patches') > Len(patches) =>
          LET p == patches'[Len(patches')]
          IN /\ open /\ mode = "edit" /\ Len(detail) = 1
             /\ Len(patches') = Len(patches) + 1
             /\ p.method = "PATCH"
             /\ p.url = <<"/api/user/", detail[1].id>>
             /\ DOMAIN p.body = {"email", "first_name", "last_name", "phone", "is_active"}
             /\ \A f \in DOMAIN p.body : p.body[f] = detail[1][f]]_vars
\* A PATCH in flight to the id the server put in the record (not the
\* row's), carrying an edited e-mail and a null phone; the form has been
\* edited again since Confirm.
C10_Witness ==
    /\ Len(patches) = 1 /\ patches[1].phase = "pending"
    /\ patches[1].url = <<"/api/user/", 8>>
    /\ patches[1].body.email = "new@x"
    /\ patches[1].body.first_name = "Bo"
    /\ detail # <<>> /\ detail[1].first_name = "Zed"

\* C12: when a pending PATCH fails, exactly one error toast is added, open,
\* mode and detail are as they were, router.refresh() is not called, and
\* saving goes from true to false, so that Confirm is disabled only by
\* loading or a missing detail; when a pending PATCH succeeds, saving is
\* false afterwards as well.
C12_FailedPatchKeepsDialog ==
    [][\A q \in DOMAIN patches :
          /\ (patches[q].phase = "pending" /\ patches'[q].phase = "rejected")
                => /\ toasts' = Append(toasts, [type |-> "error"])
                   /\ open' = open /\ mode' = mode /\ detail' = detail
                   /\ refreshes' = refreshes
                   /\ saving /\ ~saving'
                   /\ ConfirmDisabled' = (loading' \/ detail' = <<>>)
          /\ (patches[q].phase = "pending" /\ patches'[q].phase = "resolved")
                => (saving /\ ~saving')]_vars
\* After a failed PATCH of an edited record the dialog is still open with
\* the edit, no refresh was asked for, and Confirm was pressed again.
C12_Witness ==
    /\ Len(patches) = 2
    /\ patches[1].phase = "rejected" /\ patches[2].phase = "pending"
    /\ open /\ refreshes = 0 /\ saving
    /\ detail # <<>> /\ detail[1].email = "new@x"
    /\ patches[2].body.email = "new@x"
    /\ toasts = <<[type |-> "error"]>>

\* The PATCH requests in flight.
PatchesInFlight == {q \in DOMAIN patches : patches[q].phase = "pending"}

\* C23: the step that issues a PATCH is taken in the open dialog in edit
\* mode, with a detail record, with loading and saving false, the detail
\* load of the session settled and no PATCH in flight; at all times at most
\* one PATCH is in flight.
C23_OnePatchAtATime ==
    /\ [](Cardinality(PatchesInFlight) <= 1)
    /\ [][Len(patches') > Len(patches) =>
            /\ open /\ mode = "edit"
            /\ detail # <<>>
            /\ ~loading /\ ~saving
            /\ loads # <<>> /\ loads[Len(loads)].phase = "settled"
            /\ PatchesInFlight = {}
            /\ mode' = "edit"]_vars
\* The dialog was reopened for editing after a successful save, and a
\* second PATCH is in flight, the first one settled.
C23_Witness ==
    /\ Len(loads) = 2 /\ Len(patches) = 2
    /\ patches[1].phase = "resolved" /\ patches[2].phase = "pending"
    /\ open /\ mode = "edit" /\ saving
    /\ refreshes = 1

\* Load l was started by the session that is open now.
OfOpenSession(l) == open /\ l = Len(loads)

\* C24: when a detail load settles that was started by a session since
\* closed (reopened or not), detail and loading are left as they are; when
\* the load of the session still open settles, loading becomes false and
\* detail becomes what the server answered, or null (<<>>) on a failure,
\* which is the step that adds the error toast.
C24_StaleDetailIgnored ==
    [][\A l \in DOMAIN loads :
          (loads[l].phase = "pending" /\ loads'[l].phase = "settled") =>
              IF OfOpenSession(l)
              THEN /\ ~loading'
                   /\ IF toasts' = toasts
                      THEN detail' \in DetailAnswers
                      ELSE detail' = <<>>
              ELSE detail' = detail /\ loading' = loading]_vars
\* The only load settled after its session was closed: loading is still
\* as the session's effect set it, and no detail was stored.
C24_Witness ==
    /\ ~open /\ Len(loads) = 1 /\ loads[1].phase = "settled"
    /\ loading /\ detail = <<>>
    /\ toasts = <<>>

(***************************************************************************)
(* ChartAreaInteractive (data-table-client.tsx, lines 229-246 and the      *)
(* range controls, 270-302).  The generator is called inside useMemo,      *)
(* during the render, and runs to its return before any other event.       *)
(***************************************************************************)
\* The chart regenerates its series at most MaxChartCalls times.
MaxChartCalls == 3

\* The values of the ToggleGroup's and the Select's items (lines 277-279,
\* 291-299)
RangeItems == {"3d", "5d", "7d"}
\* What the ToggleGroup passes to onValueChange: an item's value, or "" when
\* the pressed item is released.
ToggleValues == RangeItems \cup {""}

\* Line 237
ChartDays(tr) == IF tr = "3d" THEN 3 ELSE IF tr = "5d" THEN 5 ELSE 7

\* Mutant: the ToggleGroup's value is stored as it comes.
ToggleValueUnguarded(v, tr) == v

\* Line 273: v && setTimeRange(v); the timeRange after the handler
ToggleValue(v, tr) == IF v # "" THEN v ELSE tr

\* No call of the generator the chart makes draws more values than this
\* and returns (7 days; per day at most 9 values and the rejected zeros).
ChartDrawCap == 6 + 7 * (9 + 2 * MaxPeriod)

\* generateTradingSeries(n) called now: the series, and what it drew.
Generated(n) == RunAlone(n, today, Drawn(ChartDrawCap))

\* The call returns: gaussian's redraw loops (lines 217-218) end, which on a
\* periodic source they do when the source has a value other than 0.
Returns == \E k \in DOMAIN rngTape : ~IsZero(rngTape[k])

\* Line 240: the render that follows a change of timeRange from tr0 to tr1;
\* useMemo calls the generator when days differs from the render before.
RenderChart(tr0, tr1) ==
    IF ChartDays(tr1) # ChartDays(tr0)
    THEN LET run == Generated(ChartDays(tr1))
         IN /\ Returns
            /\ ~run.short
            /\ Len(chartCalls) < MaxChartCalls
            /\ chartData' = run.data
            /\ chartCalls' = Append(chartCalls, ChartDays(tr1))
            /\ rngPos' = Consumed(ChartDrawCap - run.left)
    ELSE UNCHANGED <<chartData, chartCalls, rngPos>>

\* The first render (lines 230-246) and the effect of lines 233-235, with
\* useIsMobile() returning m.
ChartMount(m) ==
    /\ chart = "unrendered"
    /\ chart' = "mounted"
    /\ isMobile' = m
    /\ timeRange' = IF m THEN "7d" ELSE timeRange
    /\ LET run == Generated(ChartDays(timeRange))
       IN /\ Returns
          /\ ~run.short
          /\ chartData' = run.data
          /\ chartCalls' = <<ChartDays(timeRange)>>
          /\ rngPos' = Consumed(ChartDrawCap - run.left)
    /\ UNCHANGED notChart

\* Line 282: the Select's onValueChange
SelectRange(v) ==
    /\ chart = "mounted"
    /\ timeRange' = v
    /\ RenderChart(timeRange, v)
    /\ UNCHANGED <<chart, isMobile, notChart>>

\* Line 273: the ToggleGroup's onValueChange
ToggleRange(v) ==
    /\ chart = "mounted"
    /\ timeRange' = ToggleValue(v, timeRange)
    /\ RenderChart(timeRange, timeRange')
    /\ UNCHANGED <<chart, isMobile, notChart>>

\* useIsMobile() returns the other value; the effect of lines 233-235 runs.
MobileChange ==
    /\ chart = "mounted"
    /\ isMobile' = ~isMobile
    /\ timeRange' = IF isMobile' THEN "7d" ELSE timeRange
    /\ RenderChart(timeRange, timeRange')
    /\ UNCHANGED <<chart, notChart>>

\* The sources the chart is run on: period 1 or 2, one calendar date.
ChartPeriods == {1, 2}
ChartTapes == UNION {[1..p -> Grid] : p \in ChartPeriods}

InitChartPage ==
    /\ rngTape \in ChartTapes
    /\ rngPos = 1
    /\ today = <<2024, 3, 1>>
    /\ InitGen({1})
    /\ InitPoll /\ InitDialog /\ InitWidgets

NextChart ==
    \/ \E m \in BOOLEAN : ChartMount(m)
    \/ \E v \in RangeItems : SelectRange(v)
    \/ \E v \in ToggleValues : ToggleRange(v)
    \/ MobileChange

SpecChart == InitChartPage /\ [][NextChart]_vars

(***************************************************************************)
(* Claims about the chart.                                                 *)
(***************************************************************************)
\* C25: timeRange is always one of 3d, 5d, 7d and every call of the
\* generator the chart has made was with 3, 5 or 7 days, the last one with
\* the days of the range shown; a step in which isMobile becomes true
\* leaves timeRange at 7d; after the first render the generator is called,
\* and the series replaced, only in a step that changes days.
C25_RangeAndRegeneration ==
    /\ [](/\ timeRange \in {"3d", "5d", "7d"}
          /\ \A k \in DOMAIN chartCalls : chartCalls[k] \in {3, 5, 7}
          /\ chart = "mounted" =>
                /\ chartCalls # <<>>
                /\ chartCalls[Len(chartCalls)] = ChartDays(timeRange)
                /\ Len(chartData) = ChartDays(timeRange))
    /\ [][/\ (isMobile' /\ ~isMobile) => timeRange' = "7d"
          /\ (chart = "mounted" /\ (chartCalls' # chartCalls \/ chartData' # chartData))
                => /\ ChartDays(timeRange') # ChartDays(timeRange)
                   /\ chartCalls' = Append(chartCalls, ChartDays(timeRange'))]_vars
\* The range was set to 3 days on a desktop, then the screen became a
\* mobile one: the range is back at 7d, after three generations.
C25_Witness ==
    /\ chart = "mounted" /\ isMobile /\ timeRange = "7d"
    /\ chartCalls = <<7, 3, 7>>
    /\ Len(chartData) = 7

(***************************************************************************)
(* SectionCards (section-cards.tsx): makeInitial, lines 98-133; jitterGroup *)
(* 135-200; jitterTPM, 202-208; the interval of lines 216-238.  One firing *)
(* of the interval runs the updater of lines 218-234 from start to end; o  *)
(* is the number of values the updater has drawn before the expression at  *)
(* hand.                                                                   *)
(***************************************************************************)
\* The interval fires at most MaxCardTicks times.
MaxCardTicks == 100

BotGroupKeys == {"mm", "tf", "nt"}

\* (Math.random() - 0.5) * coef, with coef and the result in thousandths
Jitter(g, coef) == RDiv((Milli(g) - 500) * coef, 1000)

\* Lines 137-142, VND
PnlJitter(key, g) ==
    CASE key = "mm" -> (Milli(g) - 500) * 180
      [] key = "tf" -> (Milli(g) - 450) * 320
      [] key = "nt" -> (Milli(g) - 550) * 420
\* Lines 144-149
WinJitter(key, g) ==
    Jitter(g, CASE key = "mm" -> 250 [] key = "tf" -> 350 [] key = "nt" -> 500)
\* Lines 151-156
DdJitter(key, g) ==
    Jitter(g, CASE key = "mm" -> 80 [] key = "tf" -> 160 [] key = "nt" -> 220)
\* Lines 158-163
FillJitter(key, g) ==
    Jitter(g, CASE key = "mm" -> 600 [] key = "tf" -> 900 [] key = "nt" -> 1200)
\* Line 165
ChangeJitter(g) == Jitter(g, 350)

\* Mutant: the bots count moves without the clamp.
NextActiveBotsUnclamped(ab, total, step) == ab + step

\* Lines 170-174
NextActiveBots(ab, total, step) == clamp(ab + step, Max(1, total - 2), total)

\* Lines 184-188: fillRate * 0.45 + winRate * 0.35 + (100 - maxDrawdown * 6)
\* * 0.2, rounded and clamped
HealthOf(fill, win, dd) ==
    clamp((fill * 45 + win * 35 + (100000 - dd * 6) * 20 + 50000) \div 100000, 0, 100)

\* jitterGroup(s, key), lines 135-200: the new group and the number of
\* values drawn (the seventh only when the sixth is below 0.06).
jitterGroup(s, key, o) ==
    LET fires == Milli(Draw(o + 6)) < 60
        step == IF Milli(Draw(o + 7)) > 500 THEN 1 ELSE 0 - 1
        win == clamp(s.winRate + WinJitter(key, Draw(o + 2)), 35000, 80000)
        dd == clamp(s.maxDrawdown + DdJitter(key, Draw(o + 3)), 600, 14000)
        fill == clamp(s.fillRate + FillJitter(key, Draw(o + 4)), 45000, 99000)
    IN [used |-> IF fires THEN 7 ELSE 6,
        s |-> [s EXCEPT
                 !.activeBots = IF fires THEN NextActiveBots(s.activeBots, s.totalBots, step)
                                ELSE s.activeBots,
                 !.pnlToday = s.pnlToday + PnlJitter(key, Draw(o + 1)),
                 !.winRate = win,
                 !.maxDrawdown = dd,
                 !.fillRate = fill,
                 !.change24h = clamp(s.change24h + ChangeJitter(Draw(o + 5)),
                                     0 - 25000, 25000),
                 !.health = HealthOf(fill, win, dd)]]

\* jitterTPM(current), lines 202-208
jitterTPM(current, o) ==
    LET baseline == 110000 + 60 * Milli(Draw(o + 1))
        fires == Milli(Draw(o + 2)) < 120
        burst == IF fires THEN 30000 + 80 * Milli(Draw(o + 3)) ELSE 0
        next == current * 700 + RDiv((baseline + burst) * 3, 10)
    IN [used |-> IF fires THEN 3 ELSE 2,
        value |-> MathRound(clamp(next, 40000, 420000))]

\* Line 225
NextTpmChange(c, g) == clamp(c + Jitter(g, 600), 0 - 20000, 20000)

\* Lines 218-234: the updater, on the state st
Jittered(st) ==
    LET a == jitterGroup(st.mm, "mm", 0)
        b == jitterGroup(st.tf, "tf", a.used)
        c == jitterGroup(st.nt, "nt", a.used + b.used)
        t == jitterTPM(st.tradesPerMin, a.used + b.used + c.used)
        o == a.used + b.used + c.used + t.used
    IN [used |-> o + 1,
        stats |-> [mm |-> a.s, tf |-> b.s, nt |-> c.s,
                   tradesPerMin |-> t.value,
                   tpmChange |-> NextTpmChange(st.tpmChange, Draw(o + 1))]]

\* The first render and the effect of lines 216-238: setInterval(..., 1200)
CardsMount ==
    /\ cards = "unrendered"
    /\ cards' = "mounted"
    /\ UNCHANGED <<stats, cardTicks, rngPos, notCards>>

\* The interval fires (line 217).
CardsTick ==
    /\ cards = "mounted"
    /\ cardTicks < MaxCardTicks
    /\ cardTicks' = cardTicks + 1
    /\ stats' = Jittered(stats).stats
    /\ rngPos' = Consumed(Jittered(stats).used)
    /\ UNCHANGED <<cards, notCards>>

\* The cleanup, line 237: clearInterval(id)
CardsUnmount ==
    /\ cards = "mounted"
    /\ cards' = "unmounted"
    /\ UNCHANGED <<stats, cardTicks, rngPos, notCards>>

\* The sources the cards are run on: period 1 or 2.
CardPeriods == {1, 2}
CardTapes == UNION {[1..p -> Grid] : p \in CardPeriods}

InitCardsPage ==
    /\ rngTape \in CardTapes
    /\ rngPos = 1
    /\ today = <<2024, 3, 1>>
    /\ InitGen({1})
    /\ InitPoll /\ InitDialog /\ InitWidgets

NextCards ==
    \/ CardsMount
    \/ CardsTick
    \/ CardsUnmount

SpecCards == InitCardsPage /\ [][NextCards]_vars

(***************************************************************************)
(* Claims about the cards.                                                 *)
(***************************************************************************)
\* C26: from makeInitial on and after every firing of the interval, every
\* bot group has max(1, totalBots - 2) <= activeBots <= totalBots, winRate
\* in [35, 80], maxDrawdown in [0.6, 14], fillRate in [45, 99], change24h in
\* [-25, 25] and an integer health in [0, 100]; tradesPerMin is an integer
\* in [40, 420] and tpmChange is in [-20, 20]; no step changes totalBots or
\* moves activeBots by more than 1.
C26_CardStatsWithinBounds ==
    /\ [](/\ \A k \in {"mm", "tf", "nt"} :
               LET s == stats[k]
               IN /\ Max(1, s.totalBots - 2) <= s.activeBots
                  /\ s.activeBots <= s.totalBots
                  /\ 35000 <= s.winRate /\ s.winRate <= 80000
                  /\ 600 <= s.maxDrawdown /\ s.maxDrawdown <= 14000
                  /\ 45000 <= s.fillRate /\ s.fillRate <= 99000
                  /\ 0 - 25000 <= s.change24h /\ s.change24h <= 25000
                  /\ s.health \in 0..100
          /\ stats.tradesPerMin \in 40..420
          /\ 0 - 20000 <= stats.tpmChange /\ stats.tpmChange <= 20000)
    /\ [][\A k \in {"mm", "tf", "nt"} :
            /\ stats'[k].totalBots = stats[k].totalBots
            /\ Abs(stats'[k].activeBots - stats[k].activeBots) <= 1]_vars
\* After 60 firings on a source that keeps returning its smallest value,
\* the clamps hold winRate, maxDrawdown and fillRate of the groups at their
\* floors and the market makers at 13 of 15 bots.
C26_Witness ==
    /\ cards = "mounted" /\ cardTicks = 60
    /\ stats.nt.winRate = 35000
    /\ stats.mm.maxDrawdown = 600
    /\ stats.nt.fillRate = 45000
    /\ stats.mm.activeBots = 13 /\ stats.mm.totalBots = 15

(***************************************************************************)
(* DataTable (part_001, lines 570-644): the users state, the drag to       *)
(* reorder (dnd-kit's DndContext and SortableContext, lines 703-747) and  *)
(* the requests received from DataTableClient.  Array indices are          *)
(* 0-based, as in the code; -1 is indexOf's "not found".                   *)
(***************************************************************************)
\* The page's server data is refreshed at most MaxRefreshes times.
MaxRefreshes == 2

\* The users arrays a refresh of the page brings: the same rows in a new
\* array, and an array without the first row.
UserLists == {initialUsers, <<Row(3), Row(2)>>}

\* The requests state of DataTable (lines 572-578): the effect copies
\* initial.requests, DataTableClient's requests state, after every render
\* that changes it.
tableRequests == requests

\* Array.prototype.indexOf
indexOf(a, x) ==
    IF \E k \in DOMAIN a : a[k] = x
    THEN (CHOOSE k \in DOMAIN a : a[k] = x /\ \A j \in DOMAIN a : a[j] = x => k <= j) - 1
    ELSE 0 - 1

\* Array.prototype.splice's start index for an array of length n
SpliceStart(n, start) == IF start < 0 THEN Max(n + start, 0) ELSE Min(start, n)

\* What splice inserts when nothing was removed: undefined
undefinedRow == Row(NoRow)

\* arrayMove of @dnd-kit/sortable: a copy of the array in which
\* splice(from, 1) has removed an element and splice(to, 0, element) has
\* inserted it, a negative `to` counting from the end.
arrayMove(array, from, to) ==
    LET n == Len(array)
        st == SpliceStart(n, from)
        item == IF st < n THEN array[st + 1] ELSE undefinedRow
        rest == IF st < n THEN SubSeq(array, 1, st) \o SubSeq(array, st + 2, n) ELSE array
        at == SpliceStart(Len(rest), IF to < 0 THEN Len(rest) + to ELSE to)
    IN SubSeq(rest, 1, at) \o <<item>> \o SubSeq(rest, at + 1, Len(rest))

\* Mutant: the two indices change places.
DragResultReversed(rows, ids, a, o) == arrayMove(rows, indexOf(ids, o), indexOf(ids, a))

\* Lines 638-642: the updater of handleDragEnd on the state rows, ids being
\* the dataIds of the render
DragResult(rows, ids, a, o) == arrayMove(rows, indexOf(ids, a), indexOf(ids, o))

\* The ids of the rows rendered as sortable items (lines 542-544, 730-736)
Sortables == {dataIds[k] : k \in DOMAIN dataIds}

\* A row's handle is picked up (lines 179-181).
DragStart(a) ==
    /\ comp = "mounted"
    /\ dragging = NoDrag
    /\ a \in Sortables
    /\ dragging' = [active |-> a, over |-> NoRow]
    /\ UNCHANGED <<usersProp, users, dataIds, notTable>>

\* The dragged row is moved over row o, or off the rows (NoRow).
DragOver(o) ==
    /\ dragging.active # NoRow
    /\ o \in Sortables \cup {NoRow}
    /\ o # dragging.over
    /\ dragging' = [dragging EXCEPT !.over = o]
    /\ UNCHANGED <<usersProp, users, dataIds, notTable>>

\* The row is dropped: handleDragEnd, lines 635-644, and the render.
DragEnd ==
    /\ dragging.active # NoRow
    /\ users' = IF dragging.over # NoRow /\ dragging.active # dragging.over
                THEN DragResult(users, dataIds, dragging.active, dragging.over)
                ELSE users
    /\ dataIds' = IdsOf(users')
    /\ dragging' = NoDrag
    /\ UNCHANGED <<usersProp, notTable>>

\* The page's server data is refreshed (page.tsx lines 43-48, after
\* router.refresh()): DataTable is rendered with another users array.  A
\* row under the dragged one that is no longer rendered is no longer over.
UsersRefresh(u) ==
    /\ comp = "mounted"
    /\ usersProp.ref < MaxRefreshes
    /\ usersProp' = [rows |-> u, ref |-> usersProp.ref + 1]
    /\ DataTableRender(usersProp')
    /\ dragging' = [dragging EXCEPT
                      !.over = IF \E k \in DOMAIN u : u[k].id = @ THEN @ ELSE NoRow]
    /\ UNCHANGED notTable

\* The table with the poll made at mount.
NextTable ==
    \/ Mount
    \/ \E i \in DOMAIN polls : \E ok \in BOOLEAN : Respond(i, ok)
    \/ \E i \in DOMAIN polls : BodyRead(i)
    \/ \E i \in DOMAIN polls : \E b \in Bodies : ParseDone(i, b)
    \/ \E a \in 1..3 : DragStart(a)
    \/ \E o \in 0..3 : DragOver(o)
    \/ DragEnd
    \/ \E u \in UserLists : UsersRefresh(u)

SpecTable == InitPage /\ [][NextTable]_vars

(***************************************************************************)
(* Claims about the table.                                                 *)
(***************************************************************************)
\* The number of times x occurs in the sequence a.
Count(a, x) == Cardinality({k \in DOMAIN a : a[k] = x})
\* b holds the elements of a, each as often as a does.
IsPermutation(a, b) ==
    /\ Len(a) = Len(b)
    /\ \A k \in DOMAIN a : Count(b, a[k]) = Count(a, a[k])
\* A step in which a drag ends.
DragEnds == dragging.active # NoRow /\ dragging'.active = NoRow

\* C21: when a drag ends with active and over the ids of two different
\* rows of users, users afterwards is a permutation of users before with
\* the dragged row at the index the over row had; when it ends with over
\* absent or equal to active, users is unchanged; at all times users is a
\* permutation of the rows the page was rendered with, without duplicates.
C21_DragReordersUsers ==
    /\ [](/\ IsPermutation(users, usersProp.rows)
          /\ \A k \in DOMAIN users : Count(users, users[k]) = 1
          /\ dataIds = [k \in DOMAIN users |-> users[k].id])
    /\ [][DragEnds =>
            LET a == dragging.active
                o == dragging.over
                at(x) == CHOOSE k \in DOMAIN users : users[k].id = x
                has(x) == \E k \in DOMAIN users : users[k].id = x
            IN /\ (has(a) /\ has(o) /\ a # o)
                    => /\ IsPermutation(users', users)
                       /\ users'[at(o)] = users[at(a)]
               /\ (o = NoRow \/ o = a) => users' = users]_vars
\* Row 1 was dropped on row 3: it is the third row now, and rows 2 and 3
\* have moved up.
C21_Witness ==
    /\ usersProp.ref = 0
    /\ users = <<Row(2), Row(3), Row(1)>>
    /\ dataIds = <<2, 3, 1>>
    /\ dragging = NoDrag

\* C22: a step that applies a poll response (requests, and with it the list
\* DataTable shows, is replaced) leaves users, its order and the users prop
\* as they were; users changes only when a drag ends or in a step in which
\* the users prop becomes another array, and then it becomes that array's
\* rows.
C22_PollLeavesUsersAlone ==
    [][/\ (requests' # requests \/ parsed' # parsed)
            => (users' = users /\ dataIds' = dataIds /\ usersProp' = usersProp)
       /\ (users' # users /\ ~DragEnds)
            => (usersProp'.ref # usersProp.ref /\ users' = usersProp'.rows)
       /\ usersProp'.ref # usersProp.ref => users' = usersProp'.rows]_vars
\* The poll's response has replaced the requests, and users is in the
\* order a drag gave it.
C22_Witness ==
    /\ parsed.poll = 1 /\ parsed.body.json = "object" /\ parsed.body.success
    /\ requests = <<2, 3>> /\ tableRequests = <<2, 3>>
    /\ usersProp.rows = initialUsers
    /\ users = <<Row(3), Row(1), Row(2)>>

====
